---- MODULE Spec2Model ----
(***************************************************************************)
(* A model of usefulFunctions.py: the JSON loader readJSONfile, the        *)
(* single-value entry point inflation, and the BLS pipeline                *)
(* fetch_bls_data -> parse_series_data -> prepare_dataframe (and the older *)
(* multiSeries).  Every function of the file is pure up to what it reads   *)
(* from the outside world (a file, an HTTP response, the installed pandas),*)
(* so a state is one call: the function called, its arguments, the part of *)
(* the world it read, what it returned or raised, and what it printed.     *)
(*                                                                         *)
(* Python strings that the code only passes around are TLA+ strings;       *)
(* strings the code takes apart or orders (year, period, value, file       *)
(* contents) are sequences of one-character strings or of lexical tokens.  *)
(***************************************************************************)
EXTENDS Integers, Sequences, FiniteSets, TLC

VARIABLES fn, args, env, outcome, printed

vars == <<fn, args, env, outcome, printed>>

(***************************************************************************)
(* Python values and call outcomes.                                        *)
(***************************************************************************)
PyStr(s) == [t |-> "str", s |-> s]
PyInt(n) == [t |-> "int", n |-> n]
PyFloat(n) == [t |-> "float", n |-> n]
PyBool(b) == [t |-> "bool", b |-> b]
PyNone == [t |-> "NoneType"]
PyList(items) == [t |-> "list", items |-> items]
PyDict(items) == [t |-> "dict", items |-> items]

Return(v) == [kind |-> "return", val |-> v]
Raise(e) == [kind |-> "raise", exc |-> e]

\* Line 289 runs when the module is imported.
UploadedMessage == "Functions uploaded: readJSONfile, inflation, BLS"

Init ==
    /\ fn = "import"
    /\ args = <<>>
    /\ env = <<>>
    /\ outcome = Return(PyNone)
    /\ printed = <<UploadedMessage>>

\* The interpreter is waiting for the next call: nothing of a finished call
\* is kept (no function of the file has state of its own).
AtPrompt == fn = "prompt"

ReturnToPrompt ==
    /\ fn # "prompt"
    /\ fn' = "prompt"
    /\ args' = <<>>
    /\ env' = <<>>
    /\ outcome' = Return(PyNone)
    /\ printed' = <<>>

(***************************************************************************)
(* readJSONfile                                                            *)
(***************************************************************************)
InvalidInputType == PyStr("input should be a string")
NotFound == PyStr("file does not exist")
InvalidFormat == PyStr("The file does not contain valid json")

LoaderErrors == {InvalidInputType, NotFound, InvalidFormat}

\* Bound: the number of lexical tokens in a file.
MaxTokens == 3

\* String literals a file may hold, with the Python string each denotes.
StrLits == {"\"file does not exist\"", "\"ok\""}

LitValue(lit) == IF lit = "\"ok\"" THEN "ok" ELSE "file does not exist"

\* "\\xff" stands for a byte that is not valid UTF-8.
BadByte == "\\xff"

JsonTokens == {"[", "]", ",", "{", "}", "1"} \cup StrLits \cup {BadByte}

RECURSIVE SeqsUpTo(_, _)
SeqsUpTo(S, n) ==
    IF n = 0 THEN {<<>>}
    ELSE LET shorter == SeqsUpTo(S, n - 1)
         IN shorter \cup {Append(q, x) : q \in {r \in shorter : Len(r) = n - 1}, x \in S}

FileContents == SeqsUpTo(JsonTokens, MaxTokens)

\* json.loads on a token sequence: numbers, strings, arrays and the empty
\* object (the token alphabet has no ":" so no object has members).
ParseFail == [ok |-> FALSE]
ParseOk(v, next) == [ok |-> TRUE, val |-> v, next |-> next]

RECURSIVE ParseValue(_, _)
RECURSIVE ParseElements(_, _, _)
ParseValue(toks, i) ==
    IF i > Len(toks) THEN ParseFail
    ELSE LET c == toks[i]
             closes(ch) == i + 1 <= Len(toks) /\ toks[i + 1] = ch
         IN CASE c = "1" -> ParseOk(PyInt(1), i + 1)
              [] c \in StrLits -> ParseOk(PyStr(LitValue(c)), i + 1)
              [] c = "[" -> IF closes("]") THEN ParseOk(PyList(<<>>), i + 2)
                            ELSE ParseElements(toks, i + 1, <<>>)
              [] c = "{" -> IF closes("}") THEN ParseOk(PyDict(<<>>), i + 2)
                            ELSE ParseFail
              [] OTHER -> ParseFail

ParseElements(toks, i, acc) ==
    LET r == ParseValue(toks, i)
    IN IF ~r.ok THEN ParseFail
       ELSE IF r.next > Len(toks) THEN ParseFail
       ELSE IF toks[r.next] = "," THEN ParseElements(toks, r.next + 1, Append(acc, r.val))
       ELSE IF toks[r.next] = "]" THEN ParseOk(PyList(Append(acc, r.val)), r.next + 1)
       ELSE ParseFail

\* json.loads(content): the value, or ValueError (JSONDecodeError).
JsonLoads(content) ==
    LET r == ParseValue(content, 1)
    IN IF r.ok /\ r.next = Len(content) + 1 THEN Return(r.val) ELSE Raise("ValueError")

\* f.read() in text mode decodes with the locale's encoding: UTF-8 rejects
\* the bad byte, latin-1 maps it to a character (which is no JSON token).
Encodings == {"utf-8", "latin-1"}

Decodes(content, encoding) ==
    encoding = "latin-1" \/ \A i \in DOMAIN content : content[i] # BadByte

FsEntries ==
    {[kind |-> "absent"], [kind |-> "dir"]}
        \cup {[kind |-> "file", content |-> c] : c \in FileContents}

LoaderArgs == {PyStr("data.json"), PyInt(5), PyNone, PyList(<<>>)}

readJSONfile(fname, entry, encoding) ==
    IF fname.t = "str" THEN
        IF entry.kind # "absent" THEN
            IF entry.kind = "dir" THEN Raise("IsADirectoryError")
            ELSE IF ~Decodes(entry.content, encoding) THEN Raise("UnicodeDecodeError")
            ELSE LET json_object == JsonLoads(entry.content)
                 IN IF json_object.kind = "return" THEN json_object
                    ELSE Return(InvalidFormat)
        ELSE Return(NotFound)
    ELSE Return(InvalidInputType)

CallReadJSONfile ==
    /\ AtPrompt
    /\ \E fname \in LoaderArgs, entry \in FsEntries, encoding \in Encodings :
        /\ fn' = "readJSONfile"
        /\ args' = [fname |-> fname]
        /\ env' = [entry |-> entry, encoding |-> encoding]
        /\ outcome' = readJSONfile(fname, entry, encoding)
        /\ printed' = <<>>

NextLoader == CallReadJSONfile \/ ReturnToPrompt

SpecLoader == Init /\ [][NextLoader]_vars

\* What a standard JSON parser makes of a file: its bytes are UTF-8 text
\* (RFC 8259) and the text is one JSON value.
ValidJson(content) ==
    /\ \A i \in DOMAIN content : content[i] # BadByte
    /\ JsonLoads(content).kind = "return"

\* C9: readJSONfile classifies every input: a non-string yields
\* InvalidInputType, a path where nothing exists yields NotFound, a file
\* whose contents are not valid JSON yields InvalidFormat, a file of valid
\* JSON yields the parsed document, and every call returns one of these.
C9_LoaderClassifiesEveryInput ==
    fn = "readJSONfile" =>
        /\ outcome.kind = "return"
        /\ args.fname.t # "str" => outcome = Return(InvalidInputType)
        /\ (args.fname.t = "str" /\ env.entry.kind = "absent") => outcome = Return(NotFound)
        /\ (args.fname.t = "str" /\ env.entry.kind = "file") =>
               IF ValidJson(env.entry.content)
               THEN outcome = JsonLoads(env.entry.content)
               ELSE outcome = Return(InvalidFormat)

\* The call read a file of valid JSON and returned its document.
LoaderSucceeded ==
    /\ fn = "readJSONfile"
    /\ args.fname.t = "str"
    /\ env.entry.kind = "file"
    /\ Decodes(env.entry.content, env.encoding)
    /\ JsonLoads(env.entry.content).kind = "return"

\* C10: the loader's result is a parsed document or one of three error
\* conditions, and the returned value alone tells which: no successfully
\* parsed document equals an error value.
C10_LoaderOutcomesDistinguishable ==
    LoaderSucceeded => outcome.val \notin LoaderErrors

(***************************************************************************)
(* Strings the code takes apart or orders, as character sequences.         *)
(***************************************************************************)
DigitChars == <<"0", "1", "2", "3", "4", "5", "6", "7", "8", "9">>

IsDigit(c) == \E i \in DOMAIN DigitChars : DigitChars[i] = c

DigitValue(c) == (CHOOSE i \in DOMAIN DigitChars : DigitChars[i] = c) - 1

RECURSIVE DigitsValue(_)
DigitsValue(s) ==
    IF s = <<>> THEN 0
    ELSE 10 * DigitsValue(SubSeq(s, 1, Len(s) - 1)) + DigitValue(s[Len(s)])

\* str(n) for n >= 0.
RECURSIVE IntToStr(_)
IntToStr(n) ==
    IF n < 10 THEN <<DigitChars[n + 1]>>
    ELSE Append(IntToStr(n \div 10), DigitChars[(n % 10) + 1])

\* Code points, for Python's ordering of strings.
CharCode(c) ==
    IF IsDigit(c) THEN 48 + DigitValue(c)
    ELSE CASE c = "-" -> 45
           [] c = "M" -> 77
           [] c = "Q" -> 81

RECURSIVE StrLess(_, _)
StrLess(a, b) ==
    IF b = <<>> THEN FALSE
    ELSE IF a = <<>> THEN TRUE
    ELSE IF a[1] # b[1] THEN CharCode(a[1]) < CharCode(b[1])
    ELSE StrLess(Tail(a), Tail(b))

Y2020 == <<"2", "0", "2", "0">>
Y2021 == <<"2", "0", "2", "1">>
M01 == <<"M", "0", "1">>
M02 == <<"M", "0", "2">>

\* NaN, and a float column's cell holding the whole number n.
NaN == [t |-> "nan"]

\* float() / astype('float64') of a 'value' string of digits.
ToFloat(s) == PyFloat(DigitsValue(s))

(***************************************************************************)
(* inflation                                                               *)
(***************************************************************************)
InvalidLagType == PyStr("lag should be an integer")
InvalidLagRange == PyStr("lag should be an integer between 0 and 12, including.")
InvalidVarName == PyStr("variable name should be a string (or left out)")

InflationErrors == {InvalidLagType, InvalidLagRange, InvalidVarName}

\* The largest lag the function accepts, and the offset of the older value.
MaxLag == 12
YearOffset == 12

\* Bound: integer lags are drawn from -LagSlack .. MaxLag + LagSlack.
LagSlack == 2

LagArgs ==
    {PyInt(n) : n \in (0 - LagSlack)..(MaxLag + LagSlack)}
        \cup {PyFloat(3), PyStr("3"), PyBool(TRUE), PyNone}

VarNameArgs == {PyStr("CUUR0000SA0"), PyStr("NOSUCHSERIES"), PyInt(7), PyNone}

DigitsArgs == {1, 2}

\* The 'value' strings of r['Results']['series'][0]['data'], newest first:
\* n observations, the newest YearOffset of them a, the older ones b.
MkData(n, a, b) == [i \in 1..n |-> IF i <= YearOffset THEN a ELSE b]

InflationResponses ==
    {[network |-> "down"]}
        \cup {[network |-> "up", status |-> "REQUEST_NOT_PROCESSED",
               message |-> PyList(<<PyStr("daily threshold reached")>>)]}
        \cup {[network |-> "up", status |-> "REQUEST_SUCCEEDED", data |-> MkData(n, a, b)] :
                 n \in {0, 13, 25},
                 a \in {<<"3", "1", "0">>, <<"3", "0", "0">>},
                 b \in {<<"3", "0", "0">>, <<"0">>}}

\* Python's seq[i]: negative indices count from the end.
PyIndex(seq, i) ==
    IF 0 <= i /\ i < Len(seq) THEN Return(seq[i + 1])
    ELSE IF i < 0 /\ 0 - i <= Len(seq) THEN Return(seq[Len(seq) + i + 1])
    ELSE Raise("IndexError")

Pow10(d) == IF d = 0 THEN 1 ELSE IF d = 1 THEN 10 ELSE 100

\* The integer nearest to p / q (q > 0), ties to the even one, as round().
RoundHalfEven(p, q) ==
    LET f == p \div q
        r == p - q * f
    IN IF 2 * r < q THEN f
       ELSE IF 2 * r > q THEN f + 1
       ELSE IF f % 2 = 0 THEN f ELSE f + 1

\* round((new / old - 1) * 100, digits), kept as the integer number of
\* 10^-digits units.
RoundedChange(new, old, digits) ==
    [t |-> "float", scaled |-> RoundHalfEven((new - old) * 100 * Pow10(digits), old),
     digits |-> digits]

\* Step 0 of inflation: the error value, or PyNone when the inputs pass.
CheckInflationInputsNoLowerBound(lag, varname) ==
    IF lag.t # "int" THEN InvalidLagType
    ELSE IF lag.n > MaxLag THEN InvalidLagRange
    ELSE IF varname.t # "str" THEN InvalidVarName
    ELSE PyNone

CheckInflationInputs(lag, varname) ==
    IF lag.t # "int" THEN InvalidLagType
    ELSE IF lag.n > MaxLag \/ lag.n < 0 THEN InvalidLagRange
    ELSE IF varname.t # "str" THEN InvalidVarName
    ELSE PyNone

\* [outcome, printed] of inflation(lag, varname, digits=digits) when the API
\* answers r.
inflation(lag, varname, digits, r) ==
    LET quiet(o) == [outcome |-> o, printed |-> <<>>]
        invalid == CheckInflationInputs(lag, varname)
    IN IF invalid # PyNone THEN quiet(Return(invalid))
       ELSE IF r.network = "down" THEN quiet(Raise("ConnectionError"))
       ELSE IF r.status # "REQUEST_SUCCEEDED" THEN quiet(Return(r.message))
       ELSE LET newValue == PyIndex(r.data, lag.n)
                oldValue == PyIndex(r.data, YearOffset + lag.n)
                new == ToFloat(newValue.val).n
                old == ToFloat(oldValue.val).n
            IN IF newValue.kind = "raise" THEN quiet(newValue)
               ELSE IF oldValue.kind = "raise" THEN quiet(oldValue)
               ELSE IF old = 0 THEN quiet(Raise("ZeroDivisionError"))
               ELSE LET change == RoundedChange(new, old, digits)
                    IN [outcome |-> Return(change),
                        printed |-> <<[text |-> "Inflation in the period starting",
                                       from |-> lag.n, to |-> YearOffset + lag.n,
                                       change |-> RoundedChange(new, old, 1)]>>]

CallInflation ==
    /\ AtPrompt
    /\ \E lag \in LagArgs, varname \in VarNameArgs, digits \in DigitsArgs,
       r \in InflationResponses :
        LET res == inflation(lag, varname, digits, r)
        IN /\ fn' = "inflation"
           /\ args' = [lag |-> lag, varname |-> varname, digits |-> digits]
           /\ env' = r
           /\ outcome' = res.outcome
           /\ printed' = res.printed

NextInflation == CallInflation \/ ReturnToPrompt

SpecInflation == Init /\ [][NextInflation]_vars

ValidLag(lag) == lag.t = "int" /\ lag.n \in 0..MaxLag

ReturnedNumber == outcome.kind = "return" /\ outcome.val.t = "float"

\* C8: inflation never raises on invalid input: a lag that is not an
\* integer in 0..12, or a varname that is not a string, yields one of the
\* descriptive error values, and a number is returned only for a lag in
\* 0..12 with a string varname.
C8_InflationValidatesInputs ==
    fn = "inflation" =>
        /\ ~ValidLag(args.lag) =>
               outcome \in {Return(InvalidLagType), Return(InvalidLagRange)}
        /\ args.varname.t # "str" =>
               /\ outcome.kind = "return"
               /\ outcome.val \in InflationErrors
        /\ ReturnedNumber => (ValidLag(args.lag) /\ args.varname.t = "str")

\* Witness of C8: the lag -1 is answered with the range error although the
\* API holds 25 observations (data[-1] and data[11] exist).
C8_Witness ==
    /\ fn = "inflation"
    /\ args.lag = PyInt(0 - 1)
    /\ env.network = "up" /\ env.status = "REQUEST_SUCCEEDED" /\ Len(env.data) = 25
    /\ outcome = Return(InvalidLagRange)

(***************************************************************************)
(* The API response of the pipeline.                                       *)
(***************************************************************************)
\* Bound: the number of observations in one series of a response.
MaxObs == 2

\* The observations a series may hold, newest first (the order in which the
\* API lists them); the newest period comes with two values.
ObsUniverse ==
    <<[year |-> Y2021, period |-> M01, value |-> <<"2">>],
      [year |-> Y2021, period |-> M01, value |-> <<"1">>],
      [year |-> Y2020, period |-> M02, value |-> <<"1">>],
      [year |-> Y2020, period |-> M01, value |-> <<"1">>]>>

\* A series' data: up to MaxObs observations, newest first; nothing keeps
\* the API from repeating a (year, period).
DataLists ==
    {[i \in DOMAIN ix |-> ObsUniverse[ix[i]]] :
        ix \in {q \in SeqsUpTo(DOMAIN ObsUniverse, MaxObs) :
                   \A i \in 1..(Len(q) - 1) : q[i] <= q[i + 1]}}

SeriesIds == {"S1", "S2"}

\* The series array: any of the requested series, each at most once, in
\* any order; a requested series may be absent.
SeriesLists ==
    {<<>>}
        \cup {<<[seriesID |-> a, data |-> d]>> : a \in SeriesIds, d \in DataLists}
        \cup {<<[seriesID |-> ab[1], data |-> d], [seriesID |-> ab[2], data |-> e]>> :
                 ab \in {p \in SeriesIds \X SeriesIds : p[1] # p[2]},
                 d \in DataLists, e \in DataLists}

SampleSeries == <<[seriesID |-> "S1", data |-> <<ObsUniverse[1], ObsUniverse[3]>>]>>

Body(series) == [json |-> TRUE, hasResults |-> TRUE, hasSeries |-> TRUE, series |-> series]

MalformedBodies ==
    {[json |-> FALSE],
     [json |-> TRUE, hasResults |-> FALSE],
     [json |-> TRUE, hasResults |-> TRUE, hasSeries |-> FALSE]}

StatusCodes == {200, 201, 204, 301, 404, 500}

Responses ==
    {[network |-> "down"]}
        \cup {[network |-> "up", status_code |-> c, body |-> b] :
                 c \in StatusCodes, b \in MalformedBodies \cup {Body(SampleSeries)}}
        \cup {[network |-> "up", status_code |-> 200, body |-> Body(sl)] : sl \in SeriesLists}

RaiseMsg(e, msg) == [kind |-> "raise", exc |-> e, msg |-> msg]

TransportError == RaiseMsg("ValueError", "API request failed with status code")
MalformedResponse == RaiseMsg("ValueError", "Invalid API response format")

\* fetch_bls_data that lets every status below 400 through.
fetch_bls_data_client_errors_only(resp) ==
    IF resp.network = "down" THEN Raise("ConnectionError")
    ELSE IF resp.status_code >= 400 THEN TransportError
    ELSE IF ~resp.body.json THEN Raise("JSONDecodeError")
    ELSE IF ~resp.body.hasResults \/ ~resp.body.hasSeries THEN MalformedResponse
    ELSE Return(resp.body.series)

fetch_bls_data(resp) ==
    IF resp.network = "down" THEN Raise("ConnectionError")
    ELSE IF resp.status_code # 200 THEN TransportError
    ELSE IF ~resp.body.json THEN Raise("JSONDecodeError")
    ELSE IF ~resp.body.hasResults \/ ~resp.body.hasSeries THEN MalformedResponse
    ELSE Return(resp.body.series)

(***************************************************************************)
(* Data frames: the column names in order, and the rows, each a function   *)
(* from column name to cell.                                               *)
(***************************************************************************)
KeyCols == <<"year", "period">>

EmptyFrame == [cols |-> KeyCols, rows |-> <<>>]

KeyOf(row) == <<row.year, row.period>>

KeysOf(rows) == {KeyOf(rows[i]) : i \in DOMAIN rows}

ValueCols(frame) == SelectSeq(frame.cols, LAMBDA c : c # "year" /\ c # "period")

Range(q) == {q[i] : i \in DOMAIN q}

\* The same sequence, and the same row, written out element by element.
AsSeq(q) == q \o <<>>
AsRow(r) == r @@ <<>>

\* Lexicographic order of (year, period) pairs of strings.
KeyLess(k, l) == StrLess(k[1], l[1]) \/ (k[1] = l[1] /\ StrLess(k[2], l[2]))

RECURSIVE SortKeys(_)
SortKeys(S) ==
    IF S = {} THEN <<>>
    ELSE LET least == CHOOSE k \in S : \A l \in S \ {k} : KeyLess(k, l)
         IN <<least>> \o SortKeys(S \ {least})

RECURSIVE Concat(_)
Concat(qs) == IF qs = <<>> THEN <<>> ELSE Head(qs) \o Concat(Tail(qs))

\* A row of NaN cells for the columns cs.
NaNs(cs) == [c \in Range(cs) |-> NaN]

\* The rows of a merge for one key: every pairing of a left and a right row
\* with the key, or the rows of the only side that has it, NaN elsewhere.
JoinKey(key, left, right, keepLeftOnly, keepRightOnly) ==
    LET L == SelectSeq(left.rows, LAMBDA r : KeyOf(r) = key)
        R == SelectSeq(right.rows, LAMBDA r : KeyOf(r) = key)
    IN IF L # <<>> /\ R # <<>>
       THEN AsSeq([k \in 1..(Len(L) * Len(R)) |->
                      L[((k - 1) \div Len(R)) + 1] @@ R[((k - 1) % Len(R)) + 1]])
       ELSE IF L # <<>>
       THEN (IF keepLeftOnly THEN AsSeq([k \in DOMAIN L |-> L[k] @@ NaNs(ValueCols(right))])
             ELSE <<>>)
       ELSE (IF keepRightOnly THEN AsSeq([k \in DOMAIN R |-> R[k] @@ NaNs(ValueCols(left))])
             ELSE <<>>)

Merge(left, right, keepLeftOnly, keepRightOnly) ==
    LET keys == SortKeys(KeysOf(left.rows) \cup KeysOf(right.rows))
    IN [cols |-> left.cols \o ValueCols(right),
        rows |-> Concat(AsSeq([i \in DOMAIN keys |->
                            JoinKey(keys[i], left, right, keepLeftOnly, keepRightOnly)]))]

\* merge(..., how='left') and merge(..., how='right').
LeftMerge(left, right) == Merge(left, right, TRUE, FALSE)
RightMerge(left, right) == Merge(left, right, FALSE, TRUE)

\* left.merge(right, on=['year', 'period'], how='outer')
OuterMerge(left, right) == Merge(left, right, TRUE, TRUE)

\* pd.DataFrame(data)[['year', 'period', 'value']].astype({'value':
\* 'float64'}) with 'value' renamed to series_id; no data, no columns.
CurrentDf(series_id, data) ==
    IF data = <<>> THEN Raise("KeyError")
    ELSE Return([cols |-> Append(KeyCols, series_id),
                 rows |-> AsSeq([i \in DOMAIN data |->
                              [year |-> data[i].year, period |-> data[i].period]
                                  @@ (series_id :> ToFloat(data[i].value))])])

Retrieved(series_id, n) == [text |-> "retrieved with observations", series |-> series_id, n |-> n]
NoData(series_id) == [text |-> "does not exist or contains no data", series |-> series_id]

\* df.rename(columns=seriesDict); seriesDict is a sequence of <<id, name>>.
NewName(seriesDict, c) ==
    IF \E i \in DOMAIN seriesDict : seriesDict[i][1] = c
    THEN seriesDict[CHOOSE i \in DOMAIN seriesDict : seriesDict[i][1] = c][2]
    ELSE c

RenameColumns(frame, seriesDict) ==
    [cols |-> AsSeq([i \in DOMAIN frame.cols |-> NewName(seriesDict, frame.cols[i])]),
     rows |-> AsSeq([i \in DOMAIN frame.rows |->
                  AsRow([n \in {NewName(seriesDict, c) : c \in DOMAIN frame.rows[i]} |->
                      frame.rows[i][CHOOSE c \in DOMAIN frame.rows[i] :
                                       NewName(seriesDict, c) = n]])])]

\* The loop of parse_series_data from series i on: [outcome, printed].
RECURSIVE ParseLoop(_, _, _, _, _)
ParseLoop(series_data, i, df, verbose, out) ==
    IF i > Len(series_data) THEN [outcome |-> Return(df), printed |-> out]
    ELSE LET series_id == series_data[i].seriesID
             data == series_data[i].data
             out2 == IF verbose THEN Append(out, Retrieved(series_id, Len(data))) ELSE out
         IN IF data = <<>> THEN ParseLoop(series_data, i + 1, df, verbose, out2)
            ELSE ParseLoop(series_data, i + 1,
                           OuterMerge(df, CurrentDf(series_id, data).val), verbose, out2)

parse_series_data(series_data, seriesDict, verbose) ==
    LET done == ParseLoop(series_data, 1, EmptyFrame, verbose, <<>>)
    IN [outcome |-> Return(RenameColumns(done.outcome.val, seriesDict)),
        printed |-> done.printed]

\* The loop of multiSeries from series i on: the skip of a series without
\* data is inside "if verbose".
RECURSIVE MultiSeriesLoop(_, _, _, _, _)
MultiSeriesLoop(series_data, i, new_df, verbose, out) ==
    IF i > Len(series_data) THEN [outcome |-> Return(new_df), printed |-> out]
    ELSE LET series_id == series_data[i].seriesID
             data == series_data[i].data
         IN IF verbose /\ data = <<>>
            THEN MultiSeriesLoop(series_data, i + 1, new_df, verbose,
                                 Append(out, NoData(series_id)))
            ELSE LET out2 == IF verbose THEN Append(out, Retrieved(series_id, Len(data)))
                             ELSE out
                     current_df == CurrentDf(series_id, data)
                 IN IF current_df.kind = "raise"
                    THEN [outcome |-> current_df, printed |-> out2]
                    ELSE MultiSeriesLoop(series_data, i + 1,
                                         OuterMerge(new_df, current_df.val), verbose, out2)

multiSeries(resp, verbose) ==
    IF resp.network = "down" THEN [outcome |-> Raise("ConnectionError"), printed |-> <<>>]
    ELSE IF resp.status_code # 200 THEN [outcome |-> TransportError, printed |-> <<>>]
    ELSE IF ~resp.body.json THEN [outcome |-> Raise("JSONDecodeError"), printed |-> <<>>]
    ELSE IF ~resp.body.hasResults \/ ~resp.body.hasSeries
    THEN [outcome |-> MalformedResponse, printed |-> <<>>]
    ELSE MultiSeriesLoop(resp.body.series, 1, EmptyFrame, verbose, <<>>)

(***************************************************************************)
(* prepare_dataframe, plot_changes, BLS                                    *)
(***************************************************************************)
\* pct_change(periods=12)
Periods == 12

\* int(x[1:]): drops the first character whatever it is.
PeriodToMonthDropFirst(x) ==
    LET rest == IF x = <<>> THEN <<>> ELSE Tail(x)
    IN IF rest # <<>> /\ \A i \in DOMAIN rest : IsDigit(rest[i])
       THEN Return(DigitsValue(rest)) ELSE Raise("ValueError")

\* int(x.replace('M', '')): every "M" is removed, wherever it stands, and
\* int() takes what is left if it is a non-empty run of digits.
PeriodToMonth(x) ==
    LET rest == SelectSeq(x, LAMBDA c : c # "M")
    IN IF rest # <<>> /\ \A i \in DOMAIN rest : IsDigit(rest[i])
       THEN Return(DigitsValue(rest)) ELSE Raise("ValueError")

\* sort_values(by=['year', 'month']): year as a string, month as a number;
\* rows that compare equal keep their order.
RowLess(a, b) == StrLess(a.year, b.year) \/ (a.year = b.year /\ a.month < b.month)

RECURSIVE SortValues(_)
SortValues(rows) ==
    IF rows = <<>> THEN <<>>
    ELSE LET sorted == SortValues(SubSeq(rows, 1, Len(rows) - 1))
             r == rows[Len(rows)]
             k == Cardinality({i \in DOMAIN sorted : ~RowLess(r, sorted[i])})
         IN SubSeq(sorted, 1, k) \o <<r>> \o SubSeq(sorted, k + 1, Len(sorted))

\* The pandas installed decides what pct_change does with missing values:
\* before 3.0 the default fill_method='pad' fills each NaN with the last
\* value before it, from 3.0 on nothing is filled.
FillMethods == {"pad", "none"}

Pad(values) ==
    AsSeq([i \in DOMAIN values |->
        IF values[i] # NaN \/ \A j \in 1..(i - 1) : values[j] = NaN THEN values[i]
        ELSE values[CHOOSE j \in 1..(i - 1) :
                       values[j] # NaN /\ \A l \in (j + 1)..(i - 1) : values[l] = NaN]])

\* (new / old - 1) * 100 as an exact fraction.
Pct(new, old) == [t |-> "float", num |-> (new - old) * 100, den |-> old]

\* values.pct_change(periods=12) * 100
PctChange(values, fill) ==
    LET data == IF fill = "pad" THEN Pad(values) ELSE values
    IN AsSeq([i \in DOMAIN values |->
           IF i <= Periods THEN NaN
           ELSE IF data[i] = NaN \/ data[i - Periods] = NaN THEN NaN
           ELSE Pct(data[i].n, data[i - Periods].n)])

DerivedCols == <<"month", "time_label", "change">>

prepare_dataframe(df, target_col, fill) ==
    LET months == AsSeq([i \in DOMAIN df.rows |-> PeriodToMonth(df.rows[i].period)])
    IN IF \E i \in DOMAIN months : months[i].kind = "raise" THEN Raise("ValueError")
       ELSE LET labelled == AsSeq([i \in DOMAIN df.rows |->
                                df.rows[i] @@ [month |-> months[i].val,
                                               time_label |-> df.rows[i].year \o <<"-">>
                                                                  \o IntToStr(months[i].val)]])
                sorted == SortValues(labelled)
            IN IF target_col \notin Range(df.cols) THEN Raise("KeyError")
               ELSE LET change == PctChange(AsSeq([i \in DOMAIN sorted |->
                                                      sorted[i][target_col]]), fill)
                    IN Return([cols |-> df.cols \o DerivedCols,
                               rows |-> AsSeq([i \in DOMAIN sorted |->
                                            sorted[i] @@ [change |-> change[i]]])])

\* plot_changes draws; int(df['change'].min()) raises when no change is known.
plot_changes(df) ==
    IF \A i \in DOMAIN df.rows : df.rows[i].change = NaN THEN Raise("ValueError")
    ELSE Return(PyNone)

BLS(seriesDict, resp, verbose, display, fill) ==
    LET target_col == seriesDict[1][2]
        series_data == fetch_bls_data(resp)
    IN IF series_data.kind = "raise" THEN [outcome |-> series_data, printed |-> <<>>]
       ELSE LET parsed == parse_series_data(series_data.val, seriesDict, verbose)
                df == prepare_dataframe(parsed.outcome.val, target_col, fill)
            IN IF df.kind = "raise" THEN [outcome |-> df, printed |-> parsed.printed]
               ELSE IF display
               THEN [outcome |-> plot_changes(df.val), printed |-> parsed.printed]
               ELSE [outcome |-> df, printed |-> parsed.printed]

\* The request of the pipeline: both series, S1 first (the target column).
SeriesDict == <<<<"S1", "X">>, <<"S2", "Y">>>>

CallFetchBlsData ==
    /\ AtPrompt
    /\ \E resp \in Responses :
        /\ fn' = "fetch_bls_data"
        /\ args' = <<>>
        /\ env' = [resp |-> resp]
        /\ outcome' = fetch_bls_data(resp)
        /\ printed' = <<>>

CallParseSeriesData ==
    /\ AtPrompt
    /\ \E series_data \in SeriesLists, verbose \in BOOLEAN :
        LET res == parse_series_data(series_data, SeriesDict, verbose)
        IN /\ fn' = "parse_series_data"
           /\ args' = [series_data |-> series_data, seriesDict |-> SeriesDict,
                       verbose |-> verbose]
           /\ env' = <<>>
           /\ outcome' = res.outcome
           /\ printed' = res.printed

CallMultiSeries ==
    /\ AtPrompt
    /\ \E resp \in Responses, verbose \in BOOLEAN :
        LET res == multiSeries(resp, verbose)
        IN /\ fn' = "multiSeries"
           /\ args' = [verbose |-> verbose]
           /\ env' = [resp |-> resp]
           /\ outcome' = res.outcome
           /\ printed' = res.printed

CallBLS ==
    /\ AtPrompt
    /\ \E resp \in Responses, verbose \in BOOLEAN, display \in BOOLEAN, fill \in FillMethods :
        LET res == BLS(SeriesDict, resp, verbose, display, fill)
        IN /\ fn' = "BLS"
           /\ args' = [seriesDict |-> SeriesDict, verbose |-> verbose, display |-> display]
           /\ env' = [resp |-> resp, fill |-> fill]
           /\ outcome' = res.outcome
           /\ printed' = res.printed

NextPipeline ==
    \/ CallFetchBlsData
    \/ CallParseSeriesData
    \/ CallMultiSeries
    \/ CallBLS
    \/ ReturnToPrompt

SpecPipeline == Init /\ [][NextPipeline]_vars

(***************************************************************************)
(* prepare_dataframe called on its own.                                    *)
(***************************************************************************)
\* Bounds: the rows of a monthly table, the missing values in its target
\* column, and the length of a period token.
MaxRows == 14
MaxNulls == 1
MaxPeriodLen == 3

TwoDigits(m) == <<DigitChars[(m \div 10) + 1], DigitChars[(m % 10) + 1]>>

\* Row i of a monthly table that starts in January 2020.
MonthlyYear(i) == IF i <= 12 THEN Y2020 ELSE Y2021
MonthlyPeriod(i) == <<"M">> \o TwoDigits(((i - 1) % 12) + 1)

\* The target column: growing by one a month, or doubling after a year.
Profiles == {"growing", "doubling"}

ProfileValue(profile, i) ==
    IF profile = "growing" THEN 100 + i ELSE IF i <= 12 THEN 100 ELSE 200

MonthlyRow(i, profile, nulls) ==
    [year |-> MonthlyYear(i), period |-> MonthlyPeriod(i),
     X |-> IF i \in nulls THEN NaN ELSE PyFloat(ProfileValue(profile, i)),
     Y |-> PyFloat(7)]

Reverse(q) == [i \in DOMAIN q |-> q[Len(q) + 1 - i]]

\* Merged tables of two series X and Y, n months long, X missing in the
\* rows nulls, in chronological order or newest first.
MonthlyTables ==
    {[cols |-> <<"year", "period", "X", "Y">>,
      rows |-> IF newestFirst
               THEN AsSeq(Reverse([i \in 1..n |-> MonthlyRow(i, profile, nulls)]))
               ELSE AsSeq([i \in 1..n |-> MonthlyRow(i, profile, nulls)])] :
        n \in 12..MaxRows, profile \in Profiles,
        nulls \in {N \in SUBSET (1..MaxRows) : Cardinality(N) <= MaxNulls},
        newestFirst \in BOOLEAN}

PeriodChars == {"M", "0", "1", "2", "Q"}

PeriodTokens == SeqsUpTo(PeriodChars, MaxPeriodLen)

\* One-row and two-row tables whose first row has any period token.
TokenTables ==
    {[cols |-> <<"year", "period", "X">>,
      rows |-> <<[year |-> Y2020, period |-> p, X |-> PyFloat(1)]>> \o rest] :
        p \in PeriodTokens,
        rest \in {<<>>, <<[year |-> Y2021, period |-> M02, X |-> PyFloat(2)]>>}}

CallPrepareDataframe ==
    /\ AtPrompt
    /\ \E df \in MonthlyTables \cup TokenTables, fill \in FillMethods :
        /\ fn' = "prepare_dataframe"
        /\ args' = [df |-> df, target_col |-> "X"]
        /\ env' = [fill |-> fill]
        /\ outcome' = prepare_dataframe(df, "X", fill)
        /\ printed' = <<>>

NextDerive == CallPrepareDataframe \/ ReturnToPrompt

SpecDerive == Init /\ [][NextDerive]_vars

(***************************************************************************)
(* Properties of the change derivation.                                    *)
(***************************************************************************)
PrepareReturned == fn = "prepare_dataframe" /\ outcome.kind = "return"

\* C1: after prepare_dataframe the rows are in ascending (year, month)
\* order, and change is null in the first 12 rows and in every row whose
\* target value, or the target value 12 rows earlier, is null; in every
\* other row i it is (target[i] / target[i-12] - 1) * 100.
C1_ChangeIsTwelveRowPercentChange ==
    PrepareReturned =>
        LET rows == outcome.val.rows
            target(i) == rows[i][args.target_col]
        IN /\ \A i, j \in DOMAIN rows : i < j => ~RowLess(rows[j], rows[i])
           /\ \A i \in DOMAIN rows :
                  rows[i].change =
                      IF i <= Periods \/ target(i) = NaN \/ target(i - Periods) = NaN
                      THEN NaN
                      ELSE Pct(target(i).n, target(i - Periods).n)

\* A period token of the documented shape: "M" and two digits.
WellFormedPeriod(p) == Len(p) = 3 /\ p[1] = "M" /\ IsDigit(p[2]) /\ IsDigit(p[3])

\* C7 as stated: the call fails whenever some period token is not "M" plus
\* two digits, and a month is only ever assigned to tokens of that shape,
\* the month being the number after the "M".
C7_RejectsMalformedPeriods ==
    fn = "prepare_dataframe" =>
        /\ (\E i \in DOMAIN args.df.rows : ~WellFormedPeriod(args.df.rows[i].period))
               => outcome = Raise("ValueError")
        /\ outcome.kind = "return" =>
               \A i \in DOMAIN outcome.val.rows :
                   /\ WellFormedPeriod(outcome.val.rows[i].period)
                   /\ outcome.val.rows[i].month = DigitsValue(Tail(outcome.val.rows[i].period))

WithoutM(p) == SelectSeq(p, LAMBDA c : c # "M")

RECURSIVE StripZeros(_)
StripZeros(q) == IF Len(q) > 1 /\ q[1] = "0" THEN StripZeros(Tail(q)) ELSE q

\* What int() refuses: nothing left, or a character that is no digit.
NotAnInteger(q) == q = <<>> \/ \E i \in DOMAIN q : ~IsDigit(q[i])

\* C7 as amended: the month of a row is the integer that int() reads from
\* the period token with every "M" removed (written in decimal it is what
\* is left of the token, leading zeros aside), and the call fails, with
\* ValueError, exactly when for some row what is left is not an integer.
C7_MonthIsTokenWithoutM ==
    fn = "prepare_dataframe" =>
        /\ (outcome.kind = "raise") <=>
               \E i \in DOMAIN args.df.rows : NotAnInteger(WithoutM(args.df.rows[i].period))
        /\ outcome.kind = "raise" => outcome = Raise("ValueError")
        /\ outcome.kind = "return" =>
               /\ Len(outcome.val.rows) = Len(args.df.rows)
               /\ \A i \in DOMAIN outcome.val.rows :
                      IntToStr(outcome.val.rows[i].month)
                          = StripZeros(WithoutM(outcome.val.rows[i].period))

\* Witness of C7: the token "1M2" is given the month 12.
C7_Witness ==
    /\ PrepareReturned
    /\ args.df.rows[1].period = <<"1", "M", "2">>
    /\ \E i \in DOMAIN outcome.val.rows :
           /\ outcome.val.rows[i].period = <<"1", "M", "2">>
           /\ outcome.val.rows[i].month = 12

(***************************************************************************)
(* Properties of the fetcher and the merger.                               *)
(***************************************************************************)
\* The response carries a series array.
WellFormed(resp) ==
    /\ resp.network = "up"
    /\ resp.status_code = 200
    /\ resp.body.json /\ resp.body.hasResults /\ resp.body.hasSeries

\* C5: a response whose status is not 2xx makes fetch_bls_data, and the
\* fetch step of multiSeries and of BLS, fail with the transport error; the
\* caller gets no table and no series list.
C5_NonSuccessStatusRaises ==
    (/\ fn \in {"fetch_bls_data", "multiSeries", "BLS"}
     /\ env.resp.network = "up"
     /\ env.resp.status_code \notin 200..299)
        => outcome = TransportError

\* Witness of C5: BLS gets a 404 whose body holds a series, and raises.
C5_Witness ==
    /\ fn = "BLS"
    /\ env.resp.network = "up"
    /\ env.resp.status_code = 404
    /\ env.resp.body = Body(SampleSeries)
    /\ outcome = TransportError

\* The series the merger of this call folded, when it returned a table.
MergerReturned ==
    /\ outcome.kind = "return"
    /\ \/ fn = "parse_series_data"
       \/ fn = "multiSeries" /\ WellFormed(env.resp)

MergedSeries == IF fn = "parse_series_data" THEN args.series_data ELSE env.resp.body.series

InputKeys(series_data) ==
    UNION {KeysOf(series_data[i].data) : i \in DOMAIN series_data}

RowsWithKey(frame, key) == Cardinality({i \in DOMAIN frame.rows : KeyOf(frame.rows[i]) = key})

KeysUniquePerSeries(series_data) ==
    \A s \in DOMAIN series_data :
        \A i, j \in DOMAIN series_data[s].data :
            KeyOf(series_data[s].data[i]) = KeyOf(series_data[s].data[j]) => i = j

\* C2 as stated: whatever observation lists the merger is given, every
\* (year, period) of some series is the key of exactly one row of the
\* merged table, and no row has another key.
C2_EveryKeyExactlyOnce ==
    MergerReturned =>
        /\ \A key \in InputKeys(MergedSeries) : RowsWithKey(outcome.val, key) = 1
        /\ KeysOf(outcome.val.rows) \subseteq InputKeys(MergedSeries)

\* C2 as amended: when no series lists a (year, period) twice, every
\* (year, period) of some series is the key of exactly one row of the
\* merged table, and no row has another key.
C2_EveryKeyExactlyOnceIfUniquePerSeries ==
    (MergerReturned /\ KeysUniquePerSeries(MergedSeries)) =>
        /\ \A key \in InputKeys(MergedSeries) : RowsWithKey(outcome.val, key) = 1
        /\ KeysOf(outcome.val.rows) \subseteq InputKeys(MergedSeries)

\* Witness of C2: two series that share one key and have one key each of
\* their own are merged into three rows.
C2_Witness ==
    /\ fn = "parse_series_data"
    /\ Len(args.series_data) = 2
    /\ KeysUniquePerSeries(args.series_data)
    /\ Cardinality(KeysOf(args.series_data[1].data)) = 2
    /\ Cardinality(KeysOf(args.series_data[2].data)) = 2
    /\ Cardinality(InputKeys(args.series_data)) = 3
    /\ Len(outcome.val.rows) = 3

Count(rows, r) == Cardinality({i \in DOMAIN rows : rows[i] = r})

\* The same columns and the same rows, each as often, in any order.
SameContents(f, g) ==
    /\ Range(f.cols) = Range(g.cols)
    /\ \A r \in Range(f.rows) \cup Range(g.rows) : Count(f.rows, r) = Count(g.rows, r)

Swapped(series_data) == <<series_data[2], series_data[1]>>

\* C3: folding two series in the order [A, B] and in the order [B, A]
\* gives the same table up to the order of rows and columns.
C3_MergeOrderIndependent ==
    (fn = "parse_series_data" /\ Len(args.series_data) = 2) =>
        LET other == parse_series_data(Swapped(args.series_data), args.seriesDict,
                                     args.verbose).outcome
        IN /\ other.kind = outcome.kind
           /\ SameContents(outcome.val, other.val)

\* Witness of C3: two series with data and different key sets, whose
\* tables in the two orders differ as sequences (the columns swap).
C3_Witness ==
    /\ fn = "parse_series_data"
    /\ Len(args.series_data) = 2
    /\ args.series_data[1].data # <<>>
    /\ args.series_data[2].data # <<>>
    /\ KeysOf(args.series_data[1].data) # KeysOf(args.series_data[2].data)
    /\ outcome.val # parse_series_data(Swapped(args.series_data), args.seriesDict,
                                      args.verbose).outcome.val

\* The requested series without observations in series_data: absent, or
\* present with empty data.
WithoutData(series_data) ==
    {id \in SeriesIds :
        \A i \in DOMAIN series_data :
            series_data[i].seriesID = id => series_data[i].data = <<>>}

\* The column a series gets: its name in parse_series_data and BLS, its
\* identifier in multiSeries.
ColumnOf(id) == IF fn = "multiSeries" THEN id ELSE NewName(SeriesDict, id)

\* The call ran the normalizer and merger on a series array (for BLS, the
\* pipeline up to the derivation: display is off).
RanOnSeries ==
    \/ fn = "parse_series_data"
    \/ fn = "multiSeries" /\ WellFormed(env.resp)
    \/ fn = "BLS" /\ WellFormed(env.resp) /\ ~args.display

\* C4: a requested series that is absent from the response or has no
\* observations is no error: the call returns a table, without a column
\* and without rows for that series, whatever its place in the request and
\* whatever verbose is.
C4_SeriesWithoutDataIsSkipped ==
    RanOnSeries =>
        \A id \in WithoutData(MergedSeries) :
            /\ outcome.kind = "return"
            /\ ColumnOf(id) \notin Range(outcome.val.cols)
            /\ KeysOf(outcome.val.rows) = InputKeys(MergedSeries)

\* C6: verbose only adds messages: with the same data the call returns or
\* raises the same with verbose on and off.
C6_VerboseIsSideChannel ==
    /\ fn = "parse_series_data" =>
           outcome = parse_series_data(args.series_data, args.seriesDict,
                                     ~args.verbose).outcome
    /\ fn = "multiSeries" => outcome = multiSeries(env.resp, ~args.verbose).outcome
    /\ fn = "BLS" =>
           outcome = BLS(args.seriesDict, env.resp, ~args.verbose, args.display,
                         env.fill).outcome

====
